---- MODULE Spec2Model ----
(***************************************************************************)
(* Community matching backend: the Celery task process_match_task, the     *)
(* status poll, the data store's auto-join, the Redis result bus and the   *)
(* Socket.IO gateway that fans a published result out to a user's          *)
(* connections.                                                            *)
(*                                                                         *)
(* Similarity scores are in millionths (0.87 is 870000), toxicity scores   *)
(* in thousandths (0.75 is 750); times are in seconds.                     *)
(***************************************************************************)
EXTENDS Integers, Sequences, FiniteSets, TLC

(***************************************************************************)
(* Bounds of the model                                                     *)
(***************************************************************************)
\* task ids are opaque strings the queue generates
Tasks == {"t1", "t2"}

NumSids == 2

\* a user id is a sequence of text tokens
Users == { <<"u1">> }

Sids == 1..NumSids

(***************************************************************************)
(* Program constants                                                       *)
(***************************************************************************)
TaskTimeLimit == 10

TaskSoftTimeLimit == 8

SoulmateThreshold == 870000

ExplorerThreshold == 550000

ToxicityThreshold == 750

PopularLimit == 5

ExplorerLimit == 5

NoCommunity == "none"

(***************************************************************************)
(* Submissions.  A bio is a sequence of tokens; "EMAIL" and "PHONE" stand  *)
(* for substrings the fallback regular expressions match.                  *)
(***************************************************************************)
Bios == { <<"hello">>, <<"mail", "EMAIL", "call", "PHONE">> }

TagLists == { <<"General">> }

ScrubToken(tok) ==
    IF tok = "EMAIL" THEN "[email removed]"
    ELSE IF tok = "PHONE" THEN "[phone removed]"
    ELSE tok

\* AIService._basic_pii_removal: both substitutions, over the whole text
_basic_pii_removal(text) == [i \in 1..Len(text) |-> ScrubToken(text[i])]

\* a variant that leaves the text as it was
FallbackKeepsRawBio(bio, interest_tags) ==
    [sanitized_bio |-> bio, enriched_tags |-> interest_tags, pii_removed |-> FALSE]

\* the except branch of sanitize_and_enrich_profile
SanitizeFallback(bio, interest_tags) ==
    [sanitized_bio |-> _basic_pii_removal(bio),
     enriched_tags |-> interest_tags,
     pii_removed   |-> FALSE]

\* what the language model answers when it answers
SanitizeByModel(bio, interest_tags) ==
    [sanitized_bio |-> SelectSeq(bio, LAMBDA tok : tok \notin {"EMAIL", "PHONE"}),
     enriched_tags |-> interest_tags \o <<"Programming">>,
     pii_removed   |-> \E i \in 1..Len(bio) : bio[i] \in {"EMAIL", "PHONE"}]

(***************************************************************************)
(* The data store as the matcher sees it.  A community row carries the     *)
(* columns the pipeline copies into its result.                            *)
(***************************************************************************)
Row(id, cat, members) == [community_id |-> id, category |-> cat, member_count |-> members]

Hit(id, score) == [community_id |-> id, match_score |-> score]

\* the active communities ORDER BY member_count DESC, as get_popular_communities
\* reads them before its LIMIT
PopularCommunities ==
    << Row("c1", "Tech", 90), Row("c3", "Gaming", 70), Row("c5", "Art", 60),
       Row("c6", "Tech", 50), Row("c7", "Gaming", 40), Row("c8", "Art", 30) >>

\* rows of filter_communities_by_location for the submission's city and timezone
LocalRows == << Row("c1", "Tech", 90), Row("c2", "Tech", 40) >>

\* what the two stores answer for one task: the locality rows and the index hits
DbScenarios ==
    { [filtered |-> << >>,      hits |-> << >>],
      [filtered |-> LocalRows,  hits |-> << Hit("c1", 900000), Hit("c2", 600000) >>],
      [filtered |-> LocalRows,  hits |-> << Hit("c2", 870000), Hit("c9", 860000), Hit("c1", 550000) >>],
      [filtered |-> LocalRows,  hits |-> << Hit("c1", 549999) >>] }

Communities == {"c1", "c2", "c3"}

Min(S) == CHOOSE x \in S : \A y \in S : x <= y

\* a filter that puts the diverse entry at position 4, behind the top three
DiversityInsertsFourth(matches) ==
    IF Len(matches) < 4 THEN matches
    ELSE IF Cardinality({matches[i].category : i \in 1..3}) = 1
         THEN LET dominant == matches[1].category
                  diverse  == {i \in 4..Len(matches) : matches[i].category # dominant}
              IN  IF diverse = {} THEN matches
                  ELSE LET i == Min(diverse)
                       IN  SubSeq(matches, 1, 3) \o << matches[i] >>
                             \o SubSeq(matches, 4, i - 1)
                             \o SubSeq(matches, i + 1, Len(matches))
         ELSE matches

\* a filter that inserts the diverse entry without popping it first
DiversityCopiesEntry(matches) ==
    IF Len(matches) < 4 THEN matches
    ELSE IF Cardinality({matches[i].category : i \in 1..3}) = 1
         THEN LET dominant == matches[1].category
                  diverse  == {i \in 4..Len(matches) : matches[i].category # dominant}
              IN  IF diverse = {} THEN matches
                  ELSE LET i == Min(diverse)
                       IN  SubSeq(matches, 1, 2) \o << matches[i] >>
                             \o SubSeq(matches, 3, Len(matches))
         ELSE matches

\* a filter that exchanges the diverse entry with the third one
DiversitySwaps(matches) ==
    IF Len(matches) < 4 THEN matches
    ELSE IF Cardinality({matches[i].category : i \in 1..3}) = 1
         THEN LET dominant == matches[1].category
                  diverse  == {i \in 4..Len(matches) : matches[i].category # dominant}
              IN  IF diverse = {} THEN matches
                  ELSE LET i == Min(diverse)
                       IN  [k \in 1..Len(matches) |->
                               IF k = 3 THEN matches[i]
                               ELSE IF k = i THEN matches[3]
                               ELSE matches[k]]
         ELSE matches

\* a filter that injects without looking at the categories of the top three
DiversityIgnoresTopThree(matches) ==
    IF Len(matches) < 4 THEN matches
    ELSE LET dominant == matches[1].category
             diverse  == {i \in 4..Len(matches) : matches[i].category # dominant}
         IN  IF diverse = {} THEN matches
             ELSE LET i == Min(diverse)
                  IN  SubSeq(matches, 1, 2) \o << matches[i] >>
                        \o SubSeq(matches, 3, i - 1)
                        \o SubSeq(matches, i + 1, Len(matches))

\* celery_tasks._apply_diversity_filter (indices here are 1-based)
_apply_diversity_filter(matches) ==
    IF Len(matches) < 4 THEN matches
    ELSE IF Cardinality({matches[i].category : i \in 1..3}) = 1
         THEN LET dominant == matches[1].category
                  diverse  == {i \in 4..Len(matches) : matches[i].category # dominant}
              IN  IF diverse = {} THEN matches
                  ELSE LET i == Min(diverse)
                       IN  SubSeq(matches, 1, 2) \o << matches[i] >>
                             \o SubSeq(matches, 3, i - 1)
                             \o SubSeq(matches, i + 1, Len(matches))
         ELSE matches

\* community_map = {c["community_id"]: c for c in filtered}: the last row of an id wins
CommunityMapGet(filtered, id) ==
    filtered[CHOOSE i \in 1..Len(filtered) :
                /\ filtered[i].community_id = id
                /\ \A j \in (i + 1)..Len(filtered) : filtered[j].community_id # id]

InCommunityMap(filtered, id) == \E i \in 1..Len(filtered) : filtered[i].community_id = id

Enrich(filtered, vm) ==
    [community_id |-> vm.community_id,
     category     |-> CommunityMapGet(filtered, vm.community_id).category,
     match_score  |-> vm.match_score,
     member_count |-> CommunityMapGet(filtered, vm.community_id).member_count]

\* a merge loop without the `if comm_id in community_map` test: a hit that has no
\* locality row is carried into the list with the fields the hit itself has
RECURSIVE MergeKeepsStale(_, _)
MergeKeepsStale(filtered, vector_matches) ==
    IF vector_matches = << >> THEN << >>
    ELSE LET vm == Head(vector_matches)
         IN  (IF InCommunityMap(filtered, vm.community_id)
              THEN << Enrich(filtered, vm) >>
              ELSE << [community_id |-> vm.community_id, category |-> "unknown",
                       match_score |-> vm.match_score, member_count |-> 0] >>)
             \o MergeKeepsStale(filtered, Tail(vector_matches))

RECURSIVE MergeHits(_, _)
MergeHits(filtered, vector_matches) ==
    IF vector_matches = << >> THEN << >>
    ELSE LET vm == Head(vector_matches)
         IN  (IF InCommunityMap(filtered, vm.community_id)
              THEN << Enrich(filtered, vm) >> ELSE << >>)
             \o MergeHits(filtered, Tail(vector_matches))

\* celery_tasks._hybrid_matching_algorithm, given what the stores answer
_hybrid_matching_algorithm(filtered, vector_matches) ==
    IF filtered = << >>
    THEN SubSeq(PopularCommunities, 1, IF Len(PopularCommunities) < PopularLimit
                                       THEN Len(PopularCommunities) ELSE PopularLimit)
    ELSE _apply_diversity_filter(MergeHits(filtered, vector_matches))

HasField(r, f) == f \in DOMAIN r

\* celery_tasks._to_community_match(community, score); NoScore stands for score=None
NoScore == -1

_to_community_match(community, score) ==
    [community_id |-> community.community_id,
     category     |-> community.category,
     match_score  |-> IF score # NoScore THEN score
                      ELSE IF HasField(community, "match_score") THEN community.match_score
                      ELSE 0,
     member_count |-> community.member_count]

Take(s, n) == SubSeq(s, 1, IF Len(s) < n THEN Len(s) ELSE n)

MatchResult(task_id, user_id, tier, matches, joined_id, intro, profile_update) ==
    [task_id                 |-> task_id,
     user_id                 |-> user_id,
     tier                    |-> tier,
     matches                 |-> matches,
     auto_joined_community   |-> joined_id,
     ai_intro_generated      |-> intro,
     requires_profile_update |-> profile_update,
     processing_time_ms      |-> 0]

\* a Fallback return that takes every popular row the store has
FallbackUncapped(task_id, user_id) ==
    MatchResult(task_id, user_id, "fallback",
                [i \in 1..Len(PopularCommunities) |->
                    _to_community_match(PopularCommunities[i], 0)],
                NoCommunity, FALSE, TRUE)

\* the two Fallback returns of _apply_decision_engine
FallbackResult(task_id, user_id) ==
    MatchResult(task_id, user_id, "fallback",
                [i \in 1..Len(Take(PopularCommunities, PopularLimit)) |->
                    _to_community_match(PopularCommunities[i], 0)],
                NoCommunity, FALSE, TRUE)

\* an Explorer return that does not cut the list at five
ExplorerKeepsAll(task_id, user_id, matches) ==
    MatchResult(task_id, user_id, "explorer",
                [i \in 1..Len(matches) |-> _to_community_match(matches[i], NoScore)],
                NoCommunity, FALSE, FALSE)

\* the Explorer return of _apply_decision_engine
ExplorerResult(task_id, user_id, matches) ==
    MatchResult(task_id, user_id, "explorer",
                [i \in 1..Len(Take(matches, ExplorerLimit)) |-> _to_community_match(matches[i], NoScore)],
                NoCommunity, FALSE, FALSE)

\* a Soulmate return that keeps the whole ranked list
SoulmateKeepsAll(task_id, user_id, matches, intro) ==
    MatchResult(task_id, user_id, "soulmate",
                [i \in 1..Len(matches) |-> _to_community_match(matches[i], NoScore)],
                matches[1].community_id, intro, FALSE)

\* the Soulmate return of _apply_decision_engine
SoulmateResult(task_id, user_id, matches, intro) ==
    MatchResult(task_id, user_id, "soulmate",
                << _to_community_match(matches[1], NoScore) >>,
                matches[1].community_id, intro, FALSE)

\* a decision that takes 0.87 itself for a Soulmate score
TierSoulmateInclusive(matches) ==
    IF matches = << >> THEN "fallback"
    ELSE IF ~HasField(matches[1], "match_score") THEN "KeyError"
    ELSE IF matches[1].match_score >= SoulmateThreshold THEN "soulmate"
    ELSE IF matches[1].match_score >= ExplorerThreshold THEN "explorer"
    ELSE "fallback"

\* the branch _apply_decision_engine takes for a ranked list; reading
\* top_match["match_score"] of a row that has no such key raises KeyError
Tier(matches) ==
    IF matches = << >> THEN "fallback"
    ELSE IF ~HasField(matches[1], "match_score") THEN "KeyError"
    ELSE IF matches[1].match_score > SoulmateThreshold THEN "soulmate"
    ELSE IF matches[1].match_score >= ExplorerThreshold THEN "explorer"
    ELSE "fallback"

(***************************************************************************)
(* JSON as the result backend and the bus carry it, and the channel name   *)
(***************************************************************************)
JsonDumps(value) == << "json", value >>

JsonLoads(text) == text[2]

\* f"match_updates_{user_id}"
ChannelOf(user_id) == << "match_updates_" >> \o user_id

\* channel.replace("match_updates_", "")
UserOfChannel(channel) == SelectSeq(channel, LAMBDA tok : tok # "match_updates_")

(***************************************************************************)
(* State                                                                   *)
(***************************************************************************)
VARIABLES
    pc,                 \* where each task's run of process_match_task stands
    state,              \* the result backend's state of each task
    info,               \* the result backend's meta / result of each task
    elapsed,            \* seconds the worker has been running each task
    user_data,          \* the submission handed to each task
    loc,                \* the locals of each run of process_match_task
    members,            \* community_members: rows per (user_id, community_id)
    join_log,           \* the calls of auto_join_community, in order
    inbox,              \* messages the gateway's subscription has received
    active_connections, \* websocket_server.active_connections
    session,            \* the Socket.IO session of each sid
    emitted,            \* match_result events emitted to connections
    fn_in,              \* the arguments of a function called on its own
    fn_out,             \* what that call returned
    fn_done,            \* whether that call has returned
    handler,            \* where the connect / disconnect handler of each sid stands
    listener,           \* the frame of redis_listener and of its broadcast_to_user
    attempted,          \* the sio.emit calls broadcast_to_user has made
    handled,            \* the messages redis_listener has taken off the subscription
    bus_log,            \* the results published on the bus
    acks,               \* the last event a ping or subscribe_match handler sent to each sid
    _jwks_cache,        \* dependencies._jwks_cache of the API process
    clock,              \* time.monotonic() of the API process
    jwks_call,          \* where each call of _get_jwks_client stands
    fetches             \* the GETs of the key set that were sent, and when

vars == << pc, state, info, elapsed, user_data, loc, members, join_log,
           inbox, active_connections, session, emitted, fn_in, fn_out, fn_done,
           handler, listener, attempted, handled, bus_log, acks,
           _jwks_cache, clock, jwks_call, fetches >>

pipeline_vars == << pc, state, info, elapsed, user_data, loc, members, join_log >>

coroutine_vars == << handler, listener, attempted, handled, bus_log, acks >>

gateway_vars == << active_connections, session, emitted, coroutine_vars >>

call_vars == << fn_in, fn_out, fn_done >>

api_vars == << _jwks_cache, clock, jwks_call, fetches >>

NoCall ==
    /\ fn_in = << >>
    /\ fn_out = << >>
    /\ fn_done = FALSE

NoUser == << >>

NoResult == MatchResult("none", NoUser, "none", << >>, NoCommunity, FALSE, FALSE)

Info(kind, step, result, error) ==
    [kind |-> kind, step |-> step, result |-> result, error |-> error]

NoInfo == Info("none", "none", NoResult, "none")

NoData == [user_id |-> NoUser, bio |-> << >>, interest_tags |-> << >>]

NoLocals ==
    [sanitized_bio |-> << >>, enriched_tags |-> << >>, llm_fallback |-> FALSE,
     matches |-> << >>, joined |-> "none", result |-> NoResult,
     published |-> FALSE, failed_step |-> "none", exc |-> "none",
     killed_at |-> "none", intro_failed |-> "not_run", toxicity |-> NoScore]

\* broadcast_to_user is not running
NoFrame == [user_id |-> NoUser, match_result |-> NoResult, todo |-> {}, sid |-> 0]

\* no connection, redis_listener subscribed and waiting, nothing published
GatewayIdle ==
    /\ handler = [s \in Sids |-> [pc |-> "idle", user_id |-> NoUser]]
    /\ listener = [pc |-> "listening", subscribed |-> TRUE, errors |-> 0, depth |-> 1,
                   frame |-> NoFrame]
    /\ attempted = {}
    /\ handled = {}
    /\ bus_log = {}
    /\ acks = [s \in Sids |-> "none"]

\* concurrent calls of _get_jwks_client the API process serves
NumRequests == 2

Requests == 1..NumRequests

\* dependencies.JWKS_CACHE_TTL_SECONDS
JWKS_CACHE_TTL_SECONDS == 3600

\* the API process has just started: an empty key cache, no call under way
ApiIdle ==
    /\ _jwks_cache = [keys |-> "None", cached_at |-> 0]
    /\ clock = 0
    /\ jwks_call = [r \in Requests |-> [pc |-> "idle", now |-> 0]]
    /\ fetches = {}

Init ==
    /\ pc = [t \in Tasks |-> "unsubmitted"]
    /\ state = [t \in Tasks |-> "PENDING"]
    /\ info = [t \in Tasks |-> NoInfo]
    /\ elapsed = [t \in Tasks |-> 0]
    /\ user_data = [t \in Tasks |-> NoData]
    /\ loc = [t \in Tasks |-> NoLocals]
    /\ members = [u \in Users, c \in Communities |-> 0]
    /\ join_log = << >>
    /\ inbox = << >>
    /\ active_connections = << >>
    /\ session = [s \in Sids |-> NoUser]
    /\ emitted = {}
    /\ GatewayIdle
    /\ ApiIdle
    /\ NoCall

(***************************************************************************)
(* The task orchestrator: process_match_task under the Celery worker.      *)
(* pc names the call a run is blocked in; an action runs the code from one *)
(* blocking call to the next.                                              *)
(***************************************************************************)
Running(t) == pc[t] \notin {"unsubmitted", "queued", "done"}

\* self.update_state(state='PROCESSING', meta={'step': step}), then on to the phase
UpdateState(t, step) ==
    /\ state' = [state EXCEPT ![t] = "PROCESSING"]
    /\ info' = [info EXCEPT ![t] = Info("meta", step, NoResult, "none")]
    /\ pc' = [pc EXCEPT ![t] = step]

\* an exception leaves the try block of process_match_task
Raise(t, step, exc) ==
    /\ pc' = [pc EXCEPT ![t] = "except"]
    /\ loc' = [loc EXCEPT ![t].failed_step = step, ![t].exc = exc]
    /\ UNCHANGED << state, info >>

\* api.initiate_match: process_match_task.apply_async(kwargs={"user_data": ...})
initiate_match(t) ==
    /\ pc[t] = "unsubmitted"
    /\ \E u \in Users, bio \in Bios, tags \in TagLists :
          user_data' = [user_data EXCEPT ![t] =
                            [user_id |-> u, bio |-> bio, interest_tags |-> tags]]
    /\ pc' = [pc EXCEPT ![t] = "queued"]
    /\ UNCHANGED << state, info, elapsed, loc, members, join_log, inbox, gateway_vars, call_vars, api_vars >>

\* the worker takes the task off the queue; task_track_started=True
TaskStarted(t) ==
    /\ pc[t] = "queued"
    /\ pc' = [pc EXCEPT ![t] = "started"]
    /\ state' = [state EXCEPT ![t] = "STARTED"]
    /\ UNCHANGED << info, elapsed, user_data, loc, members, join_log, inbox, gateway_vars, call_vars, api_vars >>

\* apply_async(expires=10): a task still queued when it expires is revoked
TaskExpired(t) ==
    /\ pc[t] = "queued"
    /\ pc' = [pc EXCEPT ![t] = "done"]
    /\ state' = [state EXCEPT ![t] = "REVOKED"]
    /\ UNCHANGED << info, elapsed, user_data, loc, members, join_log, inbox, gateway_vars, call_vars, api_vars >>

\* the first statement of the try block
BeginSanitization(t) ==
    /\ pc[t] = "started"
    /\ UpdateState(t, "sanitization")
    /\ UNCHANGED << elapsed, user_data, loc, members, join_log, inbox, gateway_vars, call_vars, api_vars >>

\* PHASE 1: run_async(ai_service.sanitize_and_enrich_profile(bio, tags))
Sanitize(t) ==
    /\ pc[t] = "sanitization"
    /\ \E llm_ok \in BOOLEAN :
          LET got == IF llm_ok
                     THEN SanitizeByModel(user_data[t].bio, user_data[t].interest_tags)
                     ELSE SanitizeFallback(user_data[t].bio, user_data[t].interest_tags)
          IN  loc' = [loc EXCEPT ![t].sanitized_bio = got.sanitized_bio,
                                 ![t].enriched_tags = got.enriched_tags,
                                 ![t].llm_fallback = ~llm_ok]
    /\ UpdateState(t, "vectorization")
    /\ UNCHANGED << elapsed, user_data, members, join_log, inbox, gateway_vars, call_vars, api_vars >>

\* a failed embedding that is swallowed: the run goes on to the next phase
EmbedFailureSwallowed(t) ==
    /\ loc' = [loc EXCEPT ![t].failed_step = "vectorization", ![t].exc = "vectorization"]
    /\ UpdateState(t, "hybrid_matching")

\* generate_embedding or set_user_vector raises; neither is guarded
EmbedFailure(t) == Raise(t, "vectorization", "vectorization")

\* PHASE 2: generate_embedding and set_user_vector
Embed(t) ==
    /\ pc[t] = "vectorization"
    /\ \/ /\ UpdateState(t, "hybrid_matching")
          /\ UNCHANGED loc
       \/ EmbedFailure(t)
    /\ UNCHANGED << elapsed, user_data, members, join_log, inbox, gateway_vars, call_vars, api_vars >>

\* PHASE 3: run_async(_hybrid_matching_algorithm(...)) against the stores
Match(t) ==
    /\ pc[t] = "hybrid_matching"
    /\ \/ \E db \in DbScenarios :
             /\ loc' = [loc EXCEPT ![t].matches =
                                      _hybrid_matching_algorithm(db.filtered, db.hits)]
             /\ UpdateState(t, "decision_engine")
       \/ Raise(t, "hybrid_matching", "hybrid_matching")
    /\ UNCHANGED << elapsed, user_data, members, join_log, inbox, gateway_vars, call_vars, api_vars >>

\* result.processing_time_ms = int((time.time() - start_time) * 1000), which
\* follows the return of _apply_decision_engine; then on to the publish call
Decided(t, result) ==
    /\ loc' = [loc EXCEPT ![t].result =
                             [result EXCEPT !.processing_time_ms = elapsed[t] * 1000]]
    /\ pc' = [pc EXCEPT ![t] = "publish"]
    /\ UNCHANGED << state, info >>

\* a plain INSERT: no ON CONFLICT clause
InsertWithoutConflictClause(user_id, community_id) ==
    [inserted |-> TRUE,
     rows     |-> [members EXCEPT ![user_id, community_id] = @ + 1]]

\* the statement of auto_join_community: INSERT ... ON CONFLICT DO NOTHING RETURNING
InsertOnConflictDoNothing(user_id, community_id) ==
    IF members[user_id, community_id] = 0
    THEN [inserted |-> TRUE,
          rows     |-> [members EXCEPT ![user_id, community_id] = 1]]
    ELSE [inserted |-> FALSE, rows |-> members]

\* returns whether a row came back, the wrong way round
JoinReturnInverted(row_returned) == ~row_returned

\* DatabaseManager.auto_join_community: return result is not None
JoinReturn(row_returned) == row_returned

\* joined = await db_manager.auto_join_community(user_id, community_id) in task t
AutoJoin(t, community_id) ==
    LET did == InsertOnConflictDoNothing(user_data[t].user_id, community_id)
        ret == JoinReturn(did.inserted)
    IN  /\ members' = did.rows
        /\ join_log' = Append(join_log, [task |-> t, user_id |-> user_data[t].user_id,
                                         community_id |-> community_id, returned |-> ret])
        /\ IF ret
           THEN /\ loc' = [loc EXCEPT ![t].joined = "joined"]
                /\ pc' = [pc EXCEPT ![t] = "intro_fetch"]
                /\ UNCHANGED << state, info >>
           ELSE /\ loc' = [loc EXCEPT ![t].joined = "already",
                              ![t].result =
                                 [SoulmateResult(t, user_data[t].user_id, loc[t].matches, FALSE)
                                     EXCEPT !.processing_time_ms = elapsed[t] * 1000]]
                /\ pc' = [pc EXCEPT ![t] = "publish"]
                /\ UNCHANGED << state, info >>

\* PHASE 4: _apply_decision_engine up to its first await
Decide(t) ==
    /\ pc[t] = "decision_engine"
    /\ LET tier == Tier(loc[t].matches)
       IN  \/ /\ tier = "KeyError"
              /\ Raise(t, "decision_engine", "KeyError")
              /\ UNCHANGED << members, join_log >>
           \/ /\ tier = "fallback"
              /\ \/ Decided(t, FallbackResult(t, user_data[t].user_id))
                 \/ Raise(t, "decision_engine", "decision_engine")
              /\ UNCHANGED << members, join_log >>
           \/ /\ tier = "explorer"
              /\ Decided(t, ExplorerResult(t, user_data[t].user_id, loc[t].matches))
              /\ UNCHANGED << members, join_log >>
           \/ /\ tier = "soulmate"
              /\ \/ AutoJoin(t, loc[t].matches[1].community_id)
                 \/ /\ Raise(t, "decision_engine", "decision_engine")
                    /\ UNCHANGED << members, join_log >>
    /\ UNCHANGED << elapsed, user_data, inbox, gateway_vars, call_vars, api_vars >>

\* get_community_members_for_intro and get_community_details; neither is guarded
IntroFetch(t) ==
    /\ pc[t] = "intro_fetch"
    /\ \/ /\ pc' = [pc EXCEPT ![t] = "intro_generate"]
          /\ UNCHANGED << loc, state, info >>
       \/ Raise(t, "decision_engine", "decision_engine")
    /\ UNCHANGED << elapsed, user_data, members, join_log, inbox, gateway_vars, call_vars, api_vars >>

\* toxicity scores the moderation service can answer
Toxicities == {100, 750}

\* AIService.generate_ai_introduction: the toxicity it returns.  A failed
\* completion returns the generic text with 0.0; a failed moderation is 0.0.
IntroToxicity(failed, score) == IF failed = "none" THEN score ELSE 0

\* if toxicity < 0.75: ai_intro_generated = True, then the Soulmate return
IntroDecided(t, failed, toxicity, seconds) ==
    /\ loc' = [loc EXCEPT ![t].intro_failed = failed,
                          ![t].toxicity = toxicity,
                          ![t].result =
                             [SoulmateResult(t, user_data[t].user_id, loc[t].matches,
                                             toxicity < ToxicityThreshold)
                                 EXCEPT !.processing_time_ms = seconds * 1000]]
    /\ pc' = [pc EXCEPT ![t] = "publish"]
    /\ UNCHANGED << state, info >>

IntroGenerate(t) ==
    /\ pc[t] = "intro_generate"
    /\ \E failed \in {"none", "completion", "moderation"}, score \in Toxicities :
          IntroDecided(t, failed, IntroToxicity(failed, score), elapsed[t])
    /\ UNCHANGED << elapsed, user_data, members, join_log, inbox, gateway_vars, call_vars, api_vars >>

\* the result as it stood before the processing time was filled in
ResultBeforeStamp(t) == [loc[t].result EXCEPT !.processing_time_ms = 0]

\* result.dict() as process_match_task passes it to publish_match_result
ResultToPublish(t) == loc[t].result

\* CacheManager.publish_match_result(user_id, result)
publish_match_result(user_id, result) ==
    inbox' = Append(inbox, [channel |-> ChannelOf(user_id), data |-> JsonDumps(result)])

\* cache_manager.publish_match_result(user_data["user_id"], result.dict())
Publish(t) ==
    /\ pc[t] = "publish"
    /\ \/ /\ publish_match_result(user_data[t].user_id, ResultToPublish(t))
          /\ loc' = [loc EXCEPT ![t].published = TRUE]
          /\ pc' = [pc EXCEPT ![t] = "return"]
          /\ UNCHANGED << state, info >>
       \/ /\ Raise(t, "publish", "publish")
          /\ UNCHANGED inbox
    /\ UNCHANGED << elapsed, user_data, members, join_log, gateway_vars, call_vars, api_vars >>

\* return result.dict(): the worker stores it, JSON-serialised, as SUCCESS
Return(t) ==
    /\ pc[t] = "return"
    /\ state' = [state EXCEPT ![t] = "SUCCESS"]
    /\ info' = [info EXCEPT ![t] =
                   Info("result", "none", JsonLoads(JsonDumps(loc[t].result)), "none")]
    /\ pc' = [pc EXCEPT ![t] = "done"]
    /\ UNCHANGED << elapsed, user_data, loc, members, join_log, inbox, gateway_vars, call_vars, api_vars >>

\* except Exception as e: self.update_state(state='FAILED', meta={'error': str(e)})
Except(t) ==
    /\ pc[t] = "except"
    /\ state' = [state EXCEPT ![t] = "FAILED"]
    /\ info' = [info EXCEPT ![t] = Info("meta", "none", NoResult, loc[t].exc)]
    /\ pc' = [pc EXCEPT ![t] = "reraise"]
    /\ UNCHANGED << elapsed, user_data, loc, members, join_log, inbox, gateway_vars, call_vars, api_vars >>

\* raise: the exception leaves the task and the worker stores it as FAILURE
Reraise(t) ==
    /\ pc[t] = "reraise"
    /\ state' = [state EXCEPT ![t] = "FAILURE"]
    /\ info' = [info EXCEPT ![t] = Info("exception", "none", NoResult, loc[t].exc)]
    /\ pc' = [pc EXCEPT ![t] = "done"]
    /\ UNCHANGED << elapsed, user_data, loc, members, join_log, inbox, gateway_vars, call_vars, api_vars >>

\* task_soft_time_limit=8: SoftTimeLimitExceeded is raised inside the task,
\* wherever it stands.  Inside the try blocks of sanitize_and_enrich_profile
\* and generate_ai_introduction their except Exception clauses catch it.
SoftTimeLimit(t) ==
    /\ Running(t)
    /\ pc[t] # "reraise"
    /\ elapsed[t] < TaskSoftTimeLimit
    /\ elapsed' = [elapsed EXCEPT ![t] = TaskSoftTimeLimit]
    /\ \/ /\ pc[t] = "sanitization"
          /\ LET got == SanitizeFallback(user_data[t].bio, user_data[t].interest_tags)
             IN  loc' = [loc EXCEPT ![t].sanitized_bio = got.sanitized_bio,
                                    ![t].enriched_tags = got.enriched_tags,
                                    ![t].llm_fallback = TRUE]
          /\ UpdateState(t, "vectorization")
       \/ /\ pc[t] = "intro_generate"
          /\ IntroDecided(t, "completion", IntroToxicity("completion", 0), TaskSoftTimeLimit)
       \/ /\ pc[t] = "except"
          /\ loc' = [loc EXCEPT ![t].exc = "SoftTimeLimitExceeded"]
          /\ pc' = [pc EXCEPT ![t] = "reraise"]
          /\ UNCHANGED << state, info >>
       \/ /\ pc[t] # "except"
          /\ loc' = [loc EXCEPT ![t].exc = "SoftTimeLimitExceeded"]
          /\ pc' = [pc EXCEPT ![t] = "except"]
          /\ UNCHANGED << state, info >>
    /\ UNCHANGED << user_data, members, join_log, inbox, gateway_vars, call_vars, api_vars >>

\* a worker on which no hard limit is enforced: the task just runs on
NoHardLimit(t) ==
    /\ Running(t)
    /\ elapsed[t] = TaskSoftTimeLimit
    /\ elapsed' = [elapsed EXCEPT ![t] = TaskTimeLimit]
    /\ UNCHANGED << pc, state, info, user_data, loc, members, join_log, inbox, gateway_vars, call_vars, api_vars >>

\* task_time_limit=10: the worker kills the process running the task and
\* stores FAILURE with TimeLimitExceeded
HardTimeLimit(t) ==
    /\ Running(t)
    /\ elapsed[t] = TaskSoftTimeLimit
    /\ elapsed' = [elapsed EXCEPT ![t] = TaskTimeLimit]
    /\ state' = [state EXCEPT ![t] = "FAILURE"]
    /\ info' = [info EXCEPT ![t] = Info("exception", "none", NoResult, "TimeLimitExceeded")]
    /\ pc' = [pc EXCEPT ![t] = "done"]
    /\ loc' = [loc EXCEPT ![t].killed_at = pc[t]]
    /\ UNCHANGED << user_data, members, join_log, inbox, gateway_vars, call_vars, api_vars >>

\* api.get_match_result(task_id): the status poll's answer
get_match_result(t) ==
    IF state[t] = "PENDING"
    THEN [code |-> 202, detail |-> "Task is still processing", step |-> "none",
          body |-> NoResult, error |-> "none"]
    ELSE IF state[t] = "PROCESSING"
    THEN [code |-> 202, detail |-> "Task in progress", step |-> info[t].step,
          body |-> NoResult, error |-> "none"]
    ELSE IF state[t] = "SUCCESS"
    THEN [code |-> 200, detail |-> "none", step |-> "none",
          body |-> info[t].result, error |-> "none"]
    ELSE IF state[t] = "FAILED"
    THEN [code |-> 500, detail |-> "task info", step |-> "none",
          body |-> NoResult, error |-> info[t].error]
    ELSE [code |-> 500, detail |-> "Unknown task state", step |-> "none",
          body |-> NoResult, error |-> "none"]

(***************************************************************************)
(* The realtime gateway: websocket_server                                  *)
(***************************************************************************)
Registered(user_id) == user_id \in DOMAIN active_connections

\* active_connections[user_id] = sids
Assign(user_id, sids) ==
    [u \in DOMAIN active_connections \cup {user_id} |->
        IF u = user_id THEN sids ELSE active_connections[u]]

\* del active_connections[user_id]
Delete(user_id) == [u \in DOMAIN active_connections \ {user_id} |-> active_connections[u]]

\* a sid the transport has not used yet
Fresh(sid) ==
    /\ session[sid] = NoUser
    /\ \A u \in DOMAIN active_connections : sid \notin active_connections[u]

\* websocket_server.connect(sid, environ, auth) with auth = {'user_id': user_id}
ConnectAccepted(sid, user_id) ==
    /\ Fresh(sid)
    /\ active_connections' =
          Assign(user_id, (IF Registered(user_id) THEN active_connections[user_id] ELSE {})
                          \cup {sid})
    /\ session' = [session EXCEPT ![sid] = user_id]
    /\ UNCHANGED << pipeline_vars, inbox, emitted, call_vars, api_vars, coroutine_vars >>

\* websocket_server.disconnect(sid)
disconnect(sid) ==
    /\ session[sid] # NoUser
    /\ LET user_id == session[sid]
       IN  IF Registered(user_id)
           THEN LET rest == active_connections[user_id] \ {sid}
                IN  active_connections' =
                       IF rest = {} THEN Delete(user_id) ELSE Assign(user_id, rest)
           ELSE UNCHANGED active_connections
    /\ session' = [session EXCEPT ![sid] = NoUser]
    /\ UNCHANGED << pipeline_vars, inbox, emitted, call_vars, api_vars, coroutine_vars >>

\* the payload of the 'match_result' event
MatchResultEvent(match_result) == [status |-> "completed", result |-> match_result]

\* websocket_server.broadcast_to_user(user_id, match_result), where the emits
\* to the sids in failed raise
broadcast_to_user(user_id, match_result, failed) ==
    IF ~Registered(user_id)
    THEN UNCHANGED << active_connections, emitted >>
    ELSE LET sids == active_connections[user_id]
         IN  /\ emitted' = emitted \cup
                   { [sid |-> sid, data |-> MatchResultEvent(match_result)] :
                        sid \in sids \ failed }
             /\ active_connections' = Assign(user_id, sids \ failed)

\* redis_listener: one 'pmessage' off the subscription
redis_listener ==
    /\ inbox # << >>
    /\ LET message == Head(inbox)
           user_id == UserOfChannel(message.channel)
       IN  \E failed \in SUBSET Sids :
              /\ Registered(user_id) => failed \subseteq active_connections[user_id]
              /\ ~Registered(user_id) => failed = {}
              /\ broadcast_to_user(user_id, JsonLoads(message.data), failed)
    /\ inbox' = Tail(inbox)
    /\ session' = session
    /\ UNCHANGED << pipeline_vars, call_vars, api_vars, coroutine_vars >>

(***************************************************************************)
(* The system                                                              *)
(***************************************************************************)
\* one step of the worker running task t
TaskStep(t) ==
    \/ TaskStarted(t)
    \/ TaskExpired(t)
    \/ BeginSanitization(t)
    \/ Sanitize(t)
    \/ Embed(t)
    \/ Match(t)
    \/ Decide(t)
    \/ IntroFetch(t)
    \/ IntroGenerate(t)
    \/ Publish(t)
    \/ Return(t)
    \/ Except(t)
    \/ Reraise(t)
    \/ SoftTimeLimit(t)
    \/ HardTimeLimit(t)

\* Spec follows one submission end to end: ingestion, worker, bus, gateway
Submitted == {"t1"}

Next ==
    \/ \E t \in Submitted : initiate_match(t)
    \/ \E t \in Submitted : TaskStep(t)
    \/ \E sid \in Sids, u \in Users : ConnectAccepted(sid, u)
    \/ \E sid \in Sids : disconnect(sid)
    \/ redis_listener

Spec == Init /\ [][Next]_vars

\* SpecConcurrent races the queued tasks of one user on the worker pool
Submission == [user_id |-> <<"u1">>,
               bio |-> <<"mail", "EMAIL", "call", "PHONE">>,
               interest_tags |-> <<"General">>]

InitConcurrent ==
    /\ pc = [t \in Tasks |-> "queued"]
    /\ state = [t \in Tasks |-> "PENDING"]
    /\ info = [t \in Tasks |-> NoInfo]
    /\ elapsed = [t \in Tasks |-> 0]
    /\ user_data = [t \in Tasks |-> Submission]
    /\ loc = [t \in Tasks |-> NoLocals]
    /\ members = [u \in Users, c \in Communities |-> 0]
    /\ join_log = << >>
    /\ inbox = << >>
    /\ active_connections = << >>
    /\ session = [s \in Sids |-> NoUser]
    /\ emitted = {}
    /\ GatewayIdle
    /\ ApiIdle
    /\ NoCall

NextConcurrent == \E t \in Tasks : TaskStep(t)

SpecConcurrent == InitConcurrent /\ [][NextConcurrent]_vars

(***************************************************************************)
(* _apply_diversity_filter called on its own, on every candidate list up   *)
(* to MaxCandidates entries.  Python reorders the list in place and        *)
(* returns it; fn_in keeps the list as it was passed.                      *)
(***************************************************************************)
MaxCandidates == 5

Categories == {"Tech", "Gaming", "Art"}

\* the i-th candidate of a list, as the merge loop builds it
Candidate(i, cat) ==
    [community_id |-> i, category |-> cat,
     match_score  |-> 900000 - 1000 * i, member_count |-> 100 - i]

CandidateLists ==
    UNION { { [i \in 1..n |-> Candidate(i, cats[i])] : cats \in [1..n -> Categories] }
            : n \in 0..MaxCandidates }

\* nothing submitted, nobody connected
Quiet ==
    /\ pc = [t \in Tasks |-> "unsubmitted"]
    /\ state = [t \in Tasks |-> "PENDING"]
    /\ info = [t \in Tasks |-> NoInfo]
    /\ elapsed = [t \in Tasks |-> 0]
    /\ user_data = [t \in Tasks |-> NoData]
    /\ loc = [t \in Tasks |-> NoLocals]
    /\ members = [u \in Users, c \in Communities |-> 0]
    /\ join_log = << >>
    /\ inbox = << >>
    /\ active_connections = << >>
    /\ session = [s \in Sids |-> NoUser]
    /\ emitted = {}
    /\ GatewayIdle
    /\ ApiIdle

InitDiversity ==
    /\ Quiet
    /\ fn_in \in CandidateLists
    /\ fn_out = << >>
    /\ fn_done = FALSE

\* return _apply_diversity_filter(enriched_matches)
CallDiversityFilter ==
    /\ ~fn_done
    /\ fn_out' = _apply_diversity_filter(fn_in)
    /\ fn_done' = TRUE
    /\ UNCHANGED << fn_in, pipeline_vars, inbox, gateway_vars, api_vars >>

NextDiversity == CallDiversityFilter

SpecDiversity == InitDiversity /\ [][NextDiversity]_vars

(***************************************************************************)
(* _hybrid_matching_algorithm called on its own against a catalogue of     *)
(* communities numbered 1, 2, ...; a lower number stands for a community   *)
(* id that sorts first.  The first fn_in.local of them are in the user's   *)
(* locality and the first fn_in.indexed of them are in the vector index.   *)
(***************************************************************************)
MaxLocal == 22

MaxIndexed == 22

\* filter_communities_by_location(..., limit=1000)
FilterLimit == 1000

\* vector_search(..., top_k=20)
TopK == 20

CategoryOf(i) == IF i <= 4 THEN "Tech" ELSE "Gaming"

\* the rows come ORDER BY member_count DESC
CatalogRow(i) == Row(i, CategoryOf(i), 1000 - 10 * i)

\* cosine similarity of community i to the query; 1 and 2, 3 and 4, ... tie
SimilarityOf(i) == 900000 - 10000 * ((i + 1) \div 2)

\* DatabaseManager.filter_communities_by_location: at most limit rows
filter_communities_by_location(local, limit) ==
    Take([i \in 1..local |-> CatalogRow(i)], limit)

\* the index answers by descending score; which of two equal scores comes
\* first is up to the index
IndexScan(indexed, tie_order) ==
    [p \in 1..indexed |->
        IF tie_order = "low_id_first" THEN p
        ELSE IF p % 2 = 0 THEN p - 1
        ELSE IF p + 1 <= indexed THEN p + 1 ELSE p]

\* an index query that ignores top_k
VectorSearchUnbounded(indexed, tie_order, community_ids, top_k) ==
    LET passing == SelectSeq(IndexScan(indexed, tie_order), LAMBDA i : i \in community_ids)
    IN  [p \in 1..Len(passing) |-> Hit(passing[p], SimilarityOf(passing[p]))]

\* DatabaseManager.vector_search: the top_k best hits among community_ids
vector_search(indexed, tie_order, community_ids, top_k) ==
    LET passing == SelectSeq(IndexScan(indexed, tie_order), LAMBDA i : i \in community_ids)
    IN  [p \in 1..Len(Take(passing, top_k)) |-> Hit(passing[p], SimilarityOf(passing[p]))]

InitMatcher ==
    /\ Quiet
    /\ fn_in \in [local : 0..MaxLocal, indexed : 0..MaxIndexed,
                  tie_order : {"low_id_first", "high_id_first"}]
    /\ fn_out = << >>
    /\ fn_done = FALSE

\* _hybrid_matching_algorithm(user_data, embedding); fn_out keeps its locals
CallHybridMatching ==
    /\ ~fn_done
    /\ LET filtered == filter_communities_by_location(fn_in.local, FilterLimit)
           community_ids == {filtered[i].community_id : i \in 1..Len(filtered)}
           vector_matches == IF filtered = << >> THEN << >>
                             ELSE vector_search(fn_in.indexed, fn_in.tie_order,
                                                community_ids, TopK)
       IN  fn_out' = [filtered_communities |-> filtered,
                      vector_matches       |-> vector_matches,
                      enriched_matches     |-> MergeHits(filtered, vector_matches),
                      returned |-> _hybrid_matching_algorithm(filtered, vector_matches)]
    /\ fn_done' = TRUE
    /\ UNCHANGED << fn_in, pipeline_vars, inbox, gateway_vars, api_vars >>

NextMatcher == CallHybridMatching

SpecMatcher == InitMatcher /\ [][NextMatcher]_vars

(***************************************************************************)
(* The decision engine from the moment task "t1" enters it, for ranked     *)
(* lists of every length up to MaxRanked and top scores on and around the  *)
(* two thresholds; the user may already be a member of the top community.  *)
(***************************************************************************)
MaxRanked == 6

RankedIds == << "c1", "c2", "c4", "c5", "c6", "c7", "c8", "c9" >>

TopScores == {0, 549999, 550000, 700000, 870000, 870001, 1000000}

\* the list of n entries under a top score, one millionth apart
Ranked(top, n) ==
    [i \in 1..n |->
        [community_id |-> RankedIds[i],
         category     |-> IF i % 2 = 1 THEN "Tech" ELSE "Gaming",
         match_score  |-> top - (i - 1),
         member_count |-> 100 - i]]

\* what _hybrid_matching_algorithm can hand over: nothing, a scored list, or
\* the popular rows of its empty-locality return
MatcherOutputs ==
    { << >>, Take(PopularCommunities, PopularLimit) }
        \cup { Ranked(top, n) : top \in TopScores, n \in 1..MaxRanked }

InitDecision ==
    /\ pc = [t \in Tasks |-> IF t \in Submitted THEN "decision_engine" ELSE "unsubmitted"]
    /\ state = [t \in Tasks |-> IF t \in Submitted THEN "PROCESSING" ELSE "PENDING"]
    /\ info = [t \in Tasks |-> IF t \in Submitted
                               THEN Info("meta", "decision_engine", NoResult, "none")
                               ELSE NoInfo]
    /\ elapsed = [t \in Tasks |-> 0]
    /\ user_data = [t \in Tasks |-> IF t \in Submitted THEN Submission ELSE NoData]
    /\ \E ranked \in MatcherOutputs :
          loc = [t \in Tasks |->
                   IF t \in Submitted
                   THEN [NoLocals EXCEPT
                           !.sanitized_bio = SanitizeByModel(Submission.bio,
                                                 Submission.interest_tags).sanitized_bio,
                           !.enriched_tags = SanitizeByModel(Submission.bio,
                                                 Submission.interest_tags).enriched_tags,
                           !.matches = ranked]
                   ELSE NoLocals]
    /\ \E already \in {0, 1} :
          members = [u \in Users, c \in Communities |-> IF c = RankedIds[1] THEN already ELSE 0]
    /\ join_log = << >>
    /\ inbox = << >>
    /\ active_connections = << >>
    /\ session = [s \in Sids |-> NoUser]
    /\ emitted = {}
    /\ GatewayIdle
    /\ ApiIdle
    /\ NoCall

NextDecision ==
    \/ \E t \in Submitted : Decide(t)
    \/ \E t \in Submitted : IntroFetch(t)
    \/ \E t \in Submitted : IntroGenerate(t)

SpecDecision == InitDecision /\ [][NextDecision]_vars

(***************************************************************************)
(* The gateway's coroutines one await at a time.  The event loop runs one  *)
(* coroutine until it awaits; handler[sid].pc and listener.pc name the     *)
(* await each one is suspended in.  ConnectAccepted, disconnect and        *)
(* redis_listener above are the runs in which no await fails and no other  *)
(* coroutine is scheduled in between.                                      *)
(***************************************************************************)
MaxListenerErrors == 1

\* dict.get(key) on a dict given as a sequence of (key, value) pairs; NoUser
\* stands for None and for the empty string, which are both falsy
DictGet(dict, key) ==
    IF \E i \in 1..Len(dict) : dict[i][1] = key
    THEN dict[CHOOSE i \in 1..Len(dict) : dict[i][1] = key][2]
    ELSE NoUser

\* the auth a client can send: none or {}, one without user_id, one with an
\* empty user_id, and one naming a user
Auths ==
    { << >>, << << "token", << "x" >> >> >>, << << "user_id", NoUser >> >> }
        \cup { << << "user_id", u >> >> : u \in Users }

\* a connect that tracks the sid before it looks at the user id
ConnectRegistersFirst(sid, auth) ==
    /\ handler[sid].pc = "idle"
    /\ LET user_id == IF auth # << >> THEN DictGet(auth, "user_id") ELSE NoUser
       IN  /\ active_connections' =
                 Assign(user_id, (IF Registered(user_id)
                                  THEN active_connections[user_id] ELSE {}) \cup {sid})
           /\ handler' = [handler EXCEPT ![sid] =
                             [pc |-> IF user_id = NoUser THEN "rejected" ELSE "connect_session",
                              user_id |-> user_id]]
    /\ UNCHANGED << pipeline_vars, inbox, session, emitted, call_vars, api_vars, acks,
                    listener, attempted, handled, bus_log >>

\* connect(sid, environ, auth) up to its first await
ConnectBegin(sid, auth) ==
    /\ handler[sid].pc = "idle"
    /\ LET user_id == IF auth # << >> THEN DictGet(auth, "user_id") ELSE NoUser
       IN  IF user_id = NoUser
           THEN /\ handler' = [handler EXCEPT ![sid] = [pc |-> "rejected", user_id |-> NoUser]]
                /\ UNCHANGED active_connections
           ELSE /\ active_connections' =
                      Assign(user_id, (IF Registered(user_id)
                                       THEN active_connections[user_id] ELSE {}) \cup {sid})
                /\ handler' = [handler EXCEPT ![sid] =
                                  [pc |-> "connect_session", user_id |-> user_id]]
    /\ UNCHANGED << pipeline_vars, inbox, session, emitted, call_vars, api_vars, acks,
                    listener, attempted, handled, bus_log >>

\* async with sio.session(sid) as session: session['user_id'] = user_id
ConnectSession(sid) ==
    /\ handler[sid].pc = "connect_session"
    /\ \/ /\ session' = [session EXCEPT ![sid] = handler[sid].user_id]
          /\ handler' = [handler EXCEPT ![sid].pc = "connect_emit"]
       \/ /\ handler' = [handler EXCEPT ![sid].pc = "rejected"]
          /\ UNCHANGED session
    /\ UNCHANGED << pipeline_vars, inbox, active_connections, emitted, call_vars, api_vars, acks,
                    listener, attempted, handled, bus_log >>

\* await sio.emit('connection_status', ...); return True
ConnectEmit(sid) ==
    /\ handler[sid].pc = "connect_emit"
    /\ \/ handler' = [handler EXCEPT ![sid].pc = "open"]
       \/ handler' = [handler EXCEPT ![sid].pc = "rejected"]
    /\ UNCHANGED << pipeline_vars, inbox, active_connections, session, emitted, call_vars, api_vars, acks,
                    listener, attempted, handled, bus_log >>

\* the transport reports that an accepted connection has gone: disconnect(sid)
\* runs up to its await of the session
DisconnectBegin(sid) ==
    /\ handler[sid].pc = "open"
    /\ handler' = [handler EXCEPT ![sid].pc = "disconnect_session"]
    /\ UNCHANGED << pipeline_vars, inbox, active_connections, session, emitted, call_vars, api_vars, acks,
                    listener, attempted, handled, bus_log >>

\* the rest of disconnect(sid): discard the sid, delete the key of an empty set
DisconnectFinish(sid) ==
    /\ handler[sid].pc = "disconnect_session"
    /\ \/ LET user_id == session[sid]
          IN  IF user_id # NoUser /\ Registered(user_id)
              THEN LET rest == active_connections[user_id] \ {sid}
                   IN  active_connections' =
                          IF rest = {} THEN Delete(user_id) ELSE Assign(user_id, rest)
              ELSE UNCHANGED active_connections
       \/ UNCHANGED active_connections
    /\ handler' = [handler EXCEPT ![sid].pc = "closed"]
    /\ session' = [session EXCEPT ![sid] = NoUser]
    /\ UNCHANGED << pipeline_vars, inbox, emitted, call_vars, api_vars, acks,
                    listener, attempted, handled, bus_log >>

\* the result task_id publishes in the gateway's own specification
ResultOf(task_id, user_id) ==
    [NoResult EXCEPT !.task_id = task_id, !.user_id = user_id, !.tier = "explorer"]

\* a worker publishes a result; the bus hands it to the subscriptions that
\* are live at that moment and to no other
BusPublish(task_id, user_id) ==
    /\ \A b \in bus_log : b.task_id # task_id
    /\ bus_log' = bus_log \cup
          {[task_id |-> task_id,
            live    |-> {sid \in Sids : /\ handler[sid].pc = "open"
                                       /\ handler[sid].user_id = user_id
                                       /\ Registered(user_id)
                                       /\ sid \in active_connections[user_id]},
            subscribed |-> listener.subscribed]}
    /\ IF listener.subscribed
       THEN publish_match_result(user_id, ResultOf(task_id, user_id))
       ELSE UNCHANGED inbox
    /\ UNCHANGED << pipeline_vars, active_connections, session, emitted, call_vars, api_vars, acks,
                    handler, listener, attempted, handled >>

\* broadcast_to_user goes on to the next sid of its copy, or returns
NextEmit(frame) ==
    IF frame.todo = {}
    THEN listener' = [listener EXCEPT !.pc = "listening", !.frame = NoFrame]
    ELSE \E sid \in frame.todo :
            listener' = [listener EXCEPT !.pc = "emitting",
                            !.frame = [frame EXCEPT !.sid = sid, !.todo = frame.todo \ {sid}]]

\* a listener that puts a result nobody is registered for back on its queue
ListenerRequeues ==
    /\ listener.pc = "listening"
    /\ inbox # << >>
    /\ LET message      == Head(inbox)
           user_id      == UserOfChannel(message.channel)
           match_result == JsonLoads(message.data)
       IN  IF ~Registered(user_id)
           THEN /\ handled' = handled \cup
                      {[task_id |-> match_result.task_id, registered |-> FALSE, sids |-> {}]}
                /\ inbox' = Append(Tail(inbox), message)
                /\ UNCHANGED listener
           ELSE /\ handled' = handled \cup
                      {[task_id |-> match_result.task_id, registered |-> TRUE,
                        sids |-> active_connections[user_id]]}
                /\ inbox' = Tail(inbox)
                /\ NextEmit([user_id |-> user_id, match_result |-> match_result,
                             todo |-> active_connections[user_id], sid |-> 0])
    /\ UNCHANGED << pipeline_vars, active_connections, session, emitted, call_vars, api_vars, acks,
                    handler, attempted, bus_log >>

\* redis_listener takes one 'pmessage' and enters broadcast_to_user, which
\* runs up to its first await sio.emit
ListenerReceive ==
    /\ listener.pc = "listening"
    /\ inbox # << >>
    /\ LET message      == Head(inbox)
           user_id      == UserOfChannel(message.channel)
           match_result == JsonLoads(message.data)
       IN  IF ~Registered(user_id)
           THEN /\ handled' = handled \cup
                      {[task_id |-> match_result.task_id, registered |-> FALSE, sids |-> {}]}
                /\ UNCHANGED listener
           ELSE /\ handled' = handled \cup
                      {[task_id |-> match_result.task_id, registered |-> TRUE,
                        sids |-> active_connections[user_id]]}
                /\ NextEmit([user_id |-> user_id, match_result |-> match_result,
                             todo |-> active_connections[user_id], sid |-> 0])
    /\ inbox' = Tail(inbox)
    /\ UNCHANGED << pipeline_vars, active_connections, session, emitted, call_vars, api_vars, acks,
                    handler, attempted, bus_log >>

\* the awaited sio.emit returns or raises; on a raise the except clause runs
\* active_connections[user_id].discard(sid), a KeyError if the key is gone
EmitReturn ==
    /\ listener.pc = "emitting"
    /\ LET frame == listener.frame
           try   == [sid |-> frame.sid, task_id |-> frame.match_result.task_id]
       IN  \/ /\ emitted' = emitted \cup
                    {[sid |-> frame.sid, data |-> MatchResultEvent(frame.match_result)]}
              /\ attempted' = attempted \cup {[sid |-> try.sid, task_id |-> try.task_id, ok |-> TRUE]}
              /\ NextEmit(frame)
              /\ UNCHANGED active_connections
           \/ /\ attempted' = attempted \cup {[sid |-> try.sid, task_id |-> try.task_id, ok |-> FALSE]}
              /\ UNCHANGED emitted
              /\ IF Registered(frame.user_id)
                 THEN /\ active_connections' =
                            Assign(frame.user_id, active_connections[frame.user_id] \ {frame.sid})
                      /\ NextEmit(frame)
                 ELSE /\ listener' = [listener EXCEPT !.pc = "sleeping", !.frame = NoFrame]
                      /\ UNCHANGED active_connections
    /\ UNCHANGED << pipeline_vars, inbox, session, call_vars, api_vars, acks, handler, handled, bus_log >>

\* redis_pubsub.listen() raises: the connection to the bus is gone, and the
\* subscription with it
ListenerError ==
    /\ listener.pc = "listening"
    /\ listener.errors < MaxListenerErrors
    /\ listener' = [listener EXCEPT !.pc = "sleeping", !.subscribed = FALSE,
                                    !.errors = @ + 1]
    /\ UNCHANGED << pipeline_vars, inbox, active_connections, session, emitted, call_vars, api_vars, acks,
                    handler, attempted, handled, bus_log >>

\* await asyncio.sleep(5); await redis_listener(): the except clause calls
\* redis_listener again, one invocation deeper, and that one psubscribes
ListenerResubscribe ==
    /\ listener.pc = "sleeping"
    /\ listener' = [listener EXCEPT !.pc = "listening", !.subscribed = TRUE,
                                    !.depth = @ + 1]
    /\ UNCHANGED << pipeline_vars, inbox, active_connections, session, emitted, call_vars, api_vars, acks,
                    handler, attempted, handled, bus_log >>

InitGateway ==
    /\ Quiet
    /\ NoCall

NextGateway ==
    \/ \E sid \in Sids, auth \in Auths : ConnectBegin(sid, auth)
    \/ \E sid \in Sids : ConnectSession(sid)
    \/ \E sid \in Sids : ConnectEmit(sid)
    \/ \E sid \in Sids : DisconnectBegin(sid)
    \/ \E sid \in Sids : DisconnectFinish(sid)
    \/ \E t \in Submitted, u \in Users : BusPublish(t, u)
    \/ ListenerReceive
    \/ EmitReturn
    \/ ListenerError
    \/ ListenerResubscribe

SpecGateway == InitGateway /\ [][NextGateway]_vars

\* the event loop runs every coroutine that is ready: the listener takes the
\* message it was handed, an awaited emit returns, the sleep of the
\* reconnect path ends
SpecGatewayLive ==
    /\ SpecGateway
    /\ WF_vars(ListenerReceive)
    /\ WF_vars(EmitReturn)
    /\ WF_vars(ListenerResubscribe)

\* the event loop runs the listener whenever it is ready, but nothing makes an
\* awaited sio.emit to a slow connection return
SpecGatewaySlow ==
    /\ SpecGateway
    /\ WF_vars(ListenerReceive)
    /\ WF_vars(ListenerResubscribe)

\* the connect and disconnect handlers alone, in any interleaving
NextHandlers ==
    \/ \E sid \in Sids, auth \in Auths : ConnectBegin(sid, auth)
    \/ \E sid \in Sids : ConnectSession(sid)
    \/ \E sid \in Sids : ConnectEmit(sid)
    \/ \E sid \in Sids : DisconnectBegin(sid)
    \/ \E sid \in Sids : DisconnectFinish(sid)

SpecHandlers == InitGateway /\ [][NextHandlers]_vars

\* the payloads a client can send with 'subscribe_match': {}, one with an empty
\* task_id, one naming a task, one with another key only
SubscribeData ==
    { << >>, << << "task_id", << >> >> >>, << << "other", << "x" >> >> >> }
        \cup { << << "task_id", << t >> >> >> : t \in Tasks }

\* ping(sid, data): await sio.emit('pong', {'timestamp': ...}, room=sid)
ping(sid) ==
    /\ acks' = [acks EXCEPT ![sid] = "pong"]
    /\ UNCHANGED << pipeline_vars, inbox, active_connections, session, emitted, call_vars, api_vars,
                    handler, listener, attempted, handled, bus_log >>

\* the event subscribe_match answers with: task_id = data.get('task_id'), user_id
\* from the session; 'error' when either is missing or when the try block raised
SubscribeAnswer(sid, data, raised) ==
    LET task_id == DictGet(data, "task_id")
        user_id == session[sid]
    IN  IF raised \/ task_id = << >> \/ user_id = NoUser
        THEN "error"
        ELSE "subscription_confirmed"

\* a subscribe_match that takes the sid out of the registry when it answers 'error'
SubscribeErrorDropsSid(sid, data, raised) ==
    /\ acks' = [acks EXCEPT ![sid] = SubscribeAnswer(sid, data, raised)]
    /\ active_connections' =
          IF SubscribeAnswer(sid, data, raised) = "error"
          THEN [u \in DOMAIN active_connections |-> active_connections[u] \ {sid}]
          ELSE active_connections
    /\ UNCHANGED << pipeline_vars, inbox, session, emitted, call_vars, api_vars,
                    handler, listener, attempted, handled, bus_log >>

\* subscribe_match(sid, data): the handler as a whole; it reads the session and
\* sends one event to the sid
subscribe_match(sid, data, raised) ==
    /\ acks' = [acks EXCEPT ![sid] = SubscribeAnswer(sid, data, raised)]
    /\ UNCHANGED << pipeline_vars, inbox, active_connections, session, emitted, call_vars, api_vars,
                    handler, listener, attempted, handled, bus_log >>

\* the connection handlers and the two client events, in any interleaving; an
\* event is taken for every sid, known to the registry or not
NextEvents ==
    \/ NextHandlers
    \/ \E sid \in Sids : ping(sid)
    \/ \E sid \in Sids, data \in SubscribeData, raised \in BOOLEAN : subscribe_match(sid, data, raised)

SpecEvents == InitGateway /\ [][NextEvents]_vars

(***************************************************************************)
(* The channel name on its own: from the user id of a submission to the    *)
(* user id the gateway reads back from the channel of the message          *)
(***************************************************************************)
MaxIdTokens == 4

\* the pieces a user id is written with; one of them is the channel prefix itself
IdTokens == {"u1", "u2", "match_updates_"}

RECURSIVE TokenSeqs(_)
TokenSeqs(n) ==
    IF n = 0 THEN { << >> }
    ELSE {Append(s, tok) : s \in TokenSeqs(n - 1), tok \in IdTokens}

\* the non-empty user ids of up to MaxIdTokens pieces
UserIds == UNION {TokenSeqs(n) : n \in 1..MaxIdTokens}

\* api.initiate_match: websocket_channel=f"match_updates_{profile.user_id}"
WebsocketChannel(user_id) == << "match_updates_" >> \o user_id

InitChannel ==
    /\ Quiet
    /\ fn_in \in UserIds
    /\ fn_out = << >>
    /\ fn_done = FALSE

\* the key the ingestion answer names, the channel publish_match_result uses, and
\* the user id redis_listener takes from the channel of the 'pmessage'
CallChannelRoundTrip ==
    /\ ~fn_done
    /\ fn_out' = [websocket_channel |-> WebsocketChannel(fn_in),
                  channel           |-> ChannelOf(fn_in),
                  user_id           |-> UserOfChannel(ChannelOf(fn_in))]
    /\ fn_done' = TRUE
    /\ UNCHANGED << fn_in, pipeline_vars, inbox, gateway_vars, api_vars >>

NextChannel == CallChannelRoundTrip

SpecChannel == InitChannel /\ [][NextChannel]_vars

\* the users of the isolation check: two ordinary ids, and one whose id begins
\* with the channel prefix
IsolationUsers == { << "u1" >>, << "u2" >>, << "match_updates_", "u1" >> }

\* the gateway of NextGateway, serving connections and results of IsolationUsers
NextIsolation ==
    \/ \E sid \in Sids, u \in IsolationUsers : ConnectBegin(sid, << << "user_id", u >> >>)
    \/ \E sid \in Sids : ConnectSession(sid)
    \/ \E sid \in Sids : ConnectEmit(sid)
    \/ \E sid \in Sids : DisconnectBegin(sid)
    \/ \E sid \in Sids : DisconnectFinish(sid)
    \/ \E t \in Submitted, u \in IsolationUsers : BusPublish(t, u)
    \/ ListenerReceive
    \/ EmitReturn
    \/ ListenerError
    \/ ListenerResubscribe

SpecIsolation == InitGateway /\ [][NextIsolation]_vars

(***************************************************************************)
(* The key cache of the API process: _get_jwks_client called by several    *)
(* requests on one event loop                                              *)
(***************************************************************************)
\* the clock moves in steps of ClockStep seconds, up to MaxClock
ClockStep == 1800

MaxClock == 7200

\* time passes between two steps of the event loop
Tick ==
    /\ clock + ClockStep <= MaxClock
    /\ clock' = clock + ClockStep
    /\ UNCHANGED << pipeline_vars, inbox, gateway_vars, call_vars, _jwks_cache, jwks_call, fetches >>

\* the test of _get_jwks_client: no keys yet, or keys older than the TTL
CacheStale(now) ==
    \/ _jwks_cache.keys = "None"
    \/ now - _jwks_cache.cached_at > JWKS_CACHE_TTL_SECONDS

\* _get_jwks_client up to its await: now = time.monotonic(), the test, and for
\* a stale cache the GET of the key set; for a fresh one the return
JwksCheck(r) ==
    /\ jwks_call[r].pc = "idle"
    /\ IF CacheStale(clock)
       THEN /\ jwks_call' = [jwks_call EXCEPT ![r] = [pc |-> "fetching", now |-> clock]]
            /\ fetches' = fetches \cup {[request |-> r, at |-> clock]}
       ELSE /\ jwks_call' = [jwks_call EXCEPT ![r] = [pc |-> "returned", now |-> clock]]
            /\ UNCHANGED fetches
    /\ UNCHANGED << pipeline_vars, inbox, gateway_vars, call_vars, _jwks_cache, clock >>

\* the awaited GET answers: the keys are stored with cached_at = now, the time
\* the call began; or the GET or raise_for_status raises and the cache is untouched
JwksStore(r) ==
    /\ jwks_call[r].pc = "fetching"
    /\ \/ /\ _jwks_cache' = [keys |-> "keys", cached_at |-> jwks_call[r].now]
          /\ jwks_call' = [jwks_call EXCEPT ![r].pc = "returned"]
       \/ /\ jwks_call' = [jwks_call EXCEPT ![r].pc = "raised"]
          /\ UNCHANGED _jwks_cache
    /\ UNCHANGED << pipeline_vars, inbox, gateway_vars, call_vars, clock, fetches >>

\* get_current_user is done with the client; the next request may call again
JwksDone(r) ==
    /\ jwks_call[r].pc \in {"returned", "raised"}
    /\ jwks_call' = [jwks_call EXCEPT ![r] = [pc |-> "idle", now |-> 0]]
    /\ UNCHANGED << pipeline_vars, inbox, gateway_vars, call_vars, _jwks_cache, clock, fetches >>

InitJwks == InitGateway

NextJwks ==
    \/ Tick
    \/ \E r \in Requests : JwksCheck(r)
    \/ \E r \in Requests : JwksStore(r)
    \/ \E r \in Requests : JwksDone(r)

SpecJwks == InitJwks /\ [][NextJwks]_vars

(***************************************************************************)
(* Properties                                                              *)
(***************************************************************************)
FailedStates == {"FAILED", "FAILURE"}

DeadlineKinds == {"SoftTimeLimitExceeded", "TimeLimitExceeded"}

EmittedFor(t) == {e \in emitted : e.data.result.task_id = t}

InboxFor(t) == {i \in 1..Len(inbox) : JsonLoads(inbox[i].data).task_id = t}

\* C1: once the status poll has answered Succeeded or Failed for a task, no
\* later step of the task or of the worker changes what the poll answers.
C1_TerminalStatusIsFinal ==
    [][\A t \in Tasks :
          state[t] \in {"SUCCESS", "FAILED"} => get_match_result(t)' = get_match_result(t)]_vars

\* C2: when the embed, match, decide or publish step raises, the run is in
\* its failure path and nowhere else, it ends in a failed state that carries
\* the step's error (unless a deadline signal replaced it), and for a failure
\* in embed, match or decide nothing was published for the task.
C2_StepErrorFailsTask ==
    \A t \in Tasks :
       loc[t].failed_step # "none" =>
          /\ loc[t].failed_step \in {"vectorization", "hybrid_matching",
                                     "decision_engine", "publish"}
          /\ pc[t] \in {"except", "reraise", "done"}
          /\ state[t] # "SUCCESS"
          /\ pc[t] = "done" =>
                /\ state[t] \in FailedStates
                /\ info[t].error \notin DeadlineKinds =>
                      info[t].error \in {loc[t].failed_step, "KeyError"}
          /\ (pc[t] = "reraise" /\ state[t] = "FAILED") =>
                info[t].error \in {loc[t].failed_step, "KeyError"}
          /\ loc[t].failed_step # "publish" =>
                /\ ~loc[t].published
                /\ InboxFor(t) = {}
                /\ EmittedFor(t) = {}

C2_Witness ==
    \E t \in Tasks :
       /\ loc[t].failed_step = "vectorization"
       /\ pc[t] = "done"
       /\ state[t] = "FAILURE"
       /\ info[t].error = "vectorization"

\* C3: the status poll answers every reachable task state: the full result
\* for a succeeded task, the failure cause for a failed one, a processing
\* indicator with the step for one in progress, and never "unknown".
C3_PollAnswersEveryState ==
    \A t \in Tasks :
       LET answer == get_match_result(t)
       IN  /\ answer.detail # "Unknown task state"
           /\ state[t] = "SUCCESS" => answer.code = 200 /\ answer.body = loc[t].result
           /\ state[t] \in FailedStates => answer.code = 500 /\ answer.error = loc[t].exc
           /\ Running(t) => answer.code = 202

\* C4: a task the worker has run for the hard limit of 10 s is stopped, in
\* the FAILURE state with TimeLimitExceeded, whatever call it was blocked in.
C4_HardDeadlineFails ==
    \A t \in Tasks :
       elapsed[t] >= TaskTimeLimit =>
          /\ pc[t] = "done"
          /\ state[t] = "FAILURE"
          /\ info[t].error = "TimeLimitExceeded"

C4_Witness ==
    \E t \in Tasks :
       /\ elapsed[t] = TaskTimeLimit
       /\ loc[t].killed_at = "return"
       /\ loc[t].published
       /\ state[t] = "FAILURE"

\* C5: a task that reached the soft limit of 8 s and not the hard limit is
\* not aborted: it is neither in its failure path nor in a failed state.
C5_SoftDeadlineDoesNotAbort ==
    \A t \in Tasks :
       elapsed[t] = TaskSoftTimeLimit =>
          /\ pc[t] \notin {"except", "reraise"}
          /\ state[t] \notin FailedStates

\* C6: when the language model fails in the sanitize step, the run carries
\* the regex-scrubbed bio and the original tags on into the embed step, and
\* no task ever fails in the sanitize step.
C6_SanitizeFallback ==
    \A t \in Tasks :
       /\ loc[t].failed_step # "sanitization"
       /\ loc[t].llm_fallback =>
             /\ loc[t].sanitized_bio = _basic_pii_removal(user_data[t].bio)
             /\ loc[t].enriched_tags = user_data[t].interest_tags
             /\ pc[t] \notin {"unsubmitted", "queued", "started", "sanitization"}
             /\ pc[t] = "vectorization" =>
                   state[t] = "PROCESSING" /\ info[t].step = "vectorization"

C6_Witness ==
    \E t \in Tasks :
       /\ loc[t].llm_fallback
       /\ pc[t] = "vectorization"
       /\ elapsed[t] = 0
       /\ loc[t].sanitized_bio # user_data[t].bio
       /\ loc[t].enriched_tags = << "General" >>

\* C7: no match_result event is ever emitted for a task whose state is failed.
C7_NoDeliveryOfFailedTask ==
    \A t \in Tasks : state[t] \in FailedStates => EmittedFor(t) = {}

\* C8: every match_result event emitted for a succeeded task carries exactly
\* the result the status poll returns for it, under status 'completed'.
C8_DeliveredEqualsPolled ==
    \A e \in emitted :
       LET t == e.data.result.task_id
       IN  state[t] = "SUCCESS" =>
              e.data = [status |-> "completed", result |-> get_match_result(t).body]

C8_Witness ==
    \E e \in emitted :
       /\ state[e.data.result.task_id] = "SUCCESS"
       /\ e.data.result.processing_time_ms > 0
       /\ e.data.result = get_match_result(e.data.result.task_id).body

\* C9: however the tasks of one user interleave, no (user, community) pair
\* has more than one membership row, and a task whose join found the row
\* already there does not fail in the decision step.
C9_ConcurrentJoinIdempotent ==
    /\ \A u \in Users, c \in Communities : members[u, c] <= 1
    /\ \A t \in Tasks :
          loc[t].joined = "already" =>
             /\ loc[t].failed_step # "decision_engine"
             /\ loc[t].result.tier = "soulmate"
             /\ members[user_data[t].user_id, loc[t].result.auto_joined_community] = 1

C9_Witness ==
    \E t1, t2 \in Tasks :
       /\ loc[t1].joined = "joined"
       /\ loc[t2].joined = "already"
       /\ state[t2] = "SUCCESS"
       /\ members[user_data[t2].user_id, "c1"] = 1

SamePair(a, b) == a.user_id = b.user_id /\ a.community_id = b.community_id

\* C10: of the calls of auto_join_community for one (user, community) pair,
\* the first returns true and every later one false, and the pair has exactly
\* one membership row after them.
C10_SecondJoinAlreadyMember ==
    \A i \in 1..Len(join_log) :
       /\ join_log[i].returned =
             (\A j \in 1..(i - 1) : ~SamePair(join_log[j], join_log[i]))
       /\ members[join_log[i].user_id, join_log[i].community_id] = 1

C10_Witness ==
    /\ Len(join_log) = 2
    /\ SamePair(join_log[1], join_log[2])
    /\ join_log[1].returned
    /\ ~join_log[2].returned
    /\ members[join_log[1].user_id, join_log[1].community_id] = 1

\* exceptions that a store, a service, the bus or the worker's clock raises
ExternalFaults ==
    {"sanitization", "vectorization", "hybrid_matching", "decision_engine", "publish"}
        \cup DeadlineKinds

\* the matcher took its empty-locality return: the popular rows, as the store gave them
LocalityEmpty(t) ==
    /\ pc[t] \notin {"unsubmitted", "queued", "started", "sanitization",
                     "vectorization", "hybrid_matching"}
    /\ loc[t].killed_at \notin {"started", "sanitization", "vectorization", "hybrid_matching"}
    /\ loc[t].matches = Take(PopularCommunities, PopularLimit)

PopularAtZero ==
    [i \in 1..Len(Take(PopularCommunities, PopularLimit)) |->
        [community_id |-> PopularCommunities[i].community_id,
         category     |-> PopularCommunities[i].category,
         match_score  |-> 0,
         member_count |-> PopularCommunities[i].member_count]]

\* C11: a task whose locality filter returned no communities, and that no
\* store, service, bus or deadline failed, ends Succeeded with tier Fallback,
\* requires_profile_update true and the popular communities at score 0.
C11_EmptyLocalityFallsBack ==
    \A t \in Tasks :
        (LocalityEmpty(t) /\ pc[t] = "done" /\ loc[t].exc \notin ExternalFaults
            /\ loc[t].killed_at = "none")
        => /\ state[t] = "SUCCESS"
           /\ info[t].result.tier = "fallback"
           /\ info[t].result.requires_profile_update
           /\ info[t].result.matches = PopularAtZero

CategoriesOf(matches, n) == {matches[i].category : i \in 1..Min({n, Len(matches)})}

TopThreeAlike(matches) == Len(matches) >= 4 /\ Cardinality(CategoriesOf(matches, 3)) = 1

\* C12 as stated: for every list of 4 or more candidates whose first 3 share
\* one category, the first 3 entries of the returned list hold at least 2
\* distinct categories.
C12_TopThreeDiverse ==
    (fn_done /\ TopThreeAlike(fn_in)) => Cardinality(CategoriesOf(fn_out, 3)) >= 2

\* C12: for every list of 4 or more candidates whose first 3 share one
\* category and that holds a candidate of another category further down,
\* the first 3 entries of the returned list hold at least 2 distinct
\* categories; so no returned list of mixed categories starts with 3
\* entries of one category.
C12_TopThreeDiverseIfAnyOther ==
    fn_done =>
        /\ (TopThreeAlike(fn_in) /\ Cardinality(CategoriesOf(fn_in, Len(fn_in))) >= 2)
              => Cardinality(CategoriesOf(fn_out, 3)) >= 2
        /\ (Len(fn_out) >= 4 /\ Cardinality(CategoriesOf(fn_out, Len(fn_out))) >= 2)
              => Cardinality(CategoriesOf(fn_out, 3)) >= 2

C12_Witness ==
    /\ fn_done
    /\ TopThreeAlike(fn_in)
    /\ Cardinality(CategoriesOf(fn_in, Len(fn_in))) >= 2
    /\ fn_out # fn_in

Count(x, s) == Cardinality({i \in 1..Len(s) : s[i] = x})

IsPermutation(s, t) ==
    /\ Len(s) = Len(t)
    /\ \A i \in 1..Len(s) : Count(s[i], s) = Count(s[i], t)

\* C13: the list _apply_diversity_filter returns is a permutation of the
\* list it was given: no entry added, dropped or duplicated.
C13_DiversityPermutes == fn_done => IsPermutation(fn_in, fn_out)

C13_Witness == fn_done /\ Len(fn_in) >= 4 /\ fn_out # fn_in /\ IsPermutation(fn_in, fn_out)

\* a ranks before b: higher score, then more members, then the lower id
RanksBefore(a, b) ==
    \/ a.match_score > b.match_score
    \/ /\ a.match_score = b.match_score
       /\ \/ a.member_count > b.member_count
          \/ a.member_count = b.member_count /\ a.community_id <= b.community_id

\* C14: the merged list the diversity filter inspects is ordered by score
\* descending, ties by member_count descending and then community id
\* ascending, whichever order the index returns equal scores in.
C14_MergedListRanked ==
    fn_done =>
        \A i, j \in 1..Len(fn_out.enriched_matches) :
            i < j => RanksBefore(fn_out.enriched_matches[i], fn_out.enriched_matches[j])

\* C15: the list the matcher returns never has more than 20 entries.
C15_AtMostTwentyReturned == fn_done => Len(fn_out.returned) <= TopK

C15_Witness ==
    /\ fn_done
    /\ fn_in.local > TopK
    /\ fn_in.indexed > TopK
    /\ Len(fn_out.returned) = TopK

\* the decision engine has returned a result for t
Returned(t) == loc[t].result.tier # "none"

Scored(matches) == matches # << >> /\ HasField(matches[1], "match_score")

\* C16: on a non-empty list a top score above 0.87 is a Soulmate, a top
\* score from 0.55 to 0.87, both included, is an Explorer, and a top score
\* below 0.55 (0.549999) is a Fallback; an empty list is a Fallback.  Only a
\* Soulmate score reaches the auto-join.
C16_TierBoundaries ==
    \A t \in Tasks :
        LET matches == loc[t].matches
            tier    == loc[t].result.tier
        IN  /\ (Returned(t) /\ Scored(matches)) =>
                  /\ (matches[1].match_score > 870000) => tier = "soulmate"
                  /\ (matches[1].match_score = 870000) => tier = "explorer"
                  /\ (matches[1].match_score = 550000) => tier = "explorer"
                  /\ (matches[1].match_score \in 550000..870000) => tier = "explorer"
                  /\ (matches[1].match_score = 549999) => tier = "fallback"
                  /\ (matches[1].match_score < 550000) => tier = "fallback"
            /\ (Returned(t) /\ matches = << >>) => tier = "fallback"
            /\ (loc[t].joined # "none") => (Scored(matches) /\ matches[1].match_score > 870000)

C16_Witness ==
    \E t \in Tasks :
        /\ Returned(t)
        /\ Scored(loc[t].matches)
        /\ loc[t].matches[1].match_score = 870000
        /\ loc[t].result.tier = "explorer"

\* C17: a Soulmate result holds exactly one match, the top-ranked candidate;
\* its auto_joined_community is that candidate's community id, and the
\* user is a member of that community when the result is produced.
C17_SoulmateJoinsTopCandidate ==
    \A t \in Tasks :
        loc[t].result.tier = "soulmate" =>
            LET top == loc[t].matches[1]
                res == loc[t].result
            IN  /\ Len(res.matches) = 1
                /\ res.matches[1].community_id = top.community_id
                /\ res.matches[1].match_score = top.match_score
                /\ res.auto_joined_community = top.community_id
                /\ members[user_data[t].user_id, top.community_id] >= 1

C17_Witness ==
    \E t \in Tasks :
        /\ loc[t].result.tier = "soulmate"
        /\ Len(loc[t].matches) >= 2
        /\ loc[t].joined = "joined"

C18_IntroFlagNeedsPassedCheck ==
    \A t \in Tasks :
        loc[t].result.tier = "soulmate" =>
            LET res == loc[t].result
            IN  /\ res.ai_intro_generated =>
                      (loc[t].intro_failed = "none" /\ loc[t].toxicity \in 0..749)
                /\ (loc[t].intro_failed \in {"completion", "moderation"}
                        \/ loc[t].toxicity >= 750) =>
                      /\ ~res.ai_intro_generated
                      /\ members[user_data[t].user_id, res.auto_joined_community] >= 1

\* C19: once auto_join_community has inserted the membership, a task that
\* neither a deadline nor the publish call fails ends Succeeded with tier
\* Soulmate and the membership in place, whatever fails while the
\* introduction is fetched, generated or moderated.
C19_IntroFailureKeepsSuccess ==
    \A t \in Tasks :
        (loc[t].joined = "joined" /\ pc[t] = "done" /\ loc[t].killed_at = "none"
            /\ loc[t].exc \notin DeadlineKinds \cup {"publish"})
        => /\ state[t] = "SUCCESS"
           /\ info[t].result.tier = "soulmate"
           /\ members[user_data[t].user_id, loc[t].matches[1].community_id] >= 1


\* C21: a Fallback result holds none of the matcher's output: its matches
\* are the store's popular communities, at most 5, each at score 0, and it
\* asks for a profile update; it names no joined community and the step
\* that produces it makes no call of auto_join_community.
C21_FallbackIsPopularOnly ==
    /\ [](\A t \in Tasks :
            loc[t].result.tier = "fallback" =>
                LET res == loc[t].result
                IN  /\ res.matches = PopularAtZero
                    /\ Len(res.matches) <= 5
                    /\ \A i \in 1..Len(res.matches) : res.matches[i].match_score = 0
                    /\ res.requires_profile_update
                    /\ res.auto_joined_community = NoCommunity
                    /\ ~res.ai_intro_generated)
    /\ [][\A t \in Tasks :
            (loc[t].result.tier # "fallback" /\ loc'[t].result.tier = "fallback")
                => (members' = members /\ join_log' = join_log)]_vars

C21_Witness ==
    \E t \in Tasks :
        /\ loc[t].result.tier = "fallback"
        /\ Scored(loc[t].matches)
        /\ Len(loc[t].matches) >= 2
        /\ Len(loc[t].result.matches) = 5
        /\ Len(PopularCommunities) > 5


\* the sids the registry holds, under any user
RegisteredSids == UNION {active_connections[u] : u \in DOMAIN active_connections}

\* C22: a connect that supplies no user id (no auth, auth without user_id,
\* an empty user_id) is rejected by the handler's first step, before any
\* await, and that step leaves the registry as it was; such a sid is never
\* in the registry.
C22_NoUserRejectedAtConnect ==
    /\ [](\A sid \in Sids :
            handler[sid].user_id = NoUser =>
                (handler[sid].pc \in {"idle", "rejected"} /\ sid \notin RegisteredSids))
    /\ [][\A sid \in Sids :
            (handler[sid].pc = "idle" /\ handler'[sid].pc # "idle"
                /\ handler'[sid].user_id = NoUser)
            => (handler'[sid].pc = "rejected" /\ active_connections' = active_connections)]_vars

C22_Witness ==
    \E sid \in Sids :
        /\ handler[sid].pc = "rejected"
        /\ handler[sid].user_id = NoUser
        /\ RegisteredSids # {}


\* C23: in every reachable state of the gateway no user key of the registry
\* maps to an empty connection set.
C23_NoEmptyConnectionSet ==
    \A u \in DOMAIN active_connections : active_connections[u] # {}


\* the emit attempts broadcast_to_user has made for the result of task_id
AttemptsFor(task_id) == {a \in attempted : a.task_id = task_id}

\* broadcast_to_user is not, or no longer, running for the result of task_id
BroadcastOver(task_id) ==
    listener.pc # "emitting" \/ listener.frame.match_result.task_id # task_id

\* C24: once broadcast_to_user is over for a result whose user had N
\* registered connections when it was received, it has made exactly N
\* emit attempts, one to each of those connections, whichever of them failed.
C24_FanOutComplete ==
    \A h \in handled :
        (h.registered /\ BroadcastOver(h.task_id)) =>
            /\ {a.sid : a \in AttemptsFor(h.task_id)} = h.sids
            /\ Cardinality(AttemptsFor(h.task_id)) = Cardinality(h.sids)


\* no connect or disconnect handler is suspended in an await
HandlersFinished == \A sid \in Sids : handler[sid].pc \in {"idle", "open", "rejected", "closed"}

\* the connections of user_id that connect accepted and that have not disconnected
AcceptedAndConnected(user_id) ==
    {sid \in Sids : handler[sid].pc = "open" /\ handler[sid].user_id = user_id}

ConnectionsOf(user_id) ==
    IF Registered(user_id) THEN active_connections[user_id] ELSE {}

\* C25: whenever all connect and disconnect handlers have finished, the
\* registry's set for a user is exactly the set of that user's connections
\* that were accepted and have not disconnected.
C25_NoLostRegistryUpdate ==
    HandlersFinished => \A u \in Users : ConnectionsOf(u) = AcceptedAndConnected(u)


\* C26: a result the listener received while its user had no entry in the
\* registry is dropped: it is not on the listener's queue again, no emit is
\* ever attempted for it, and no connection, whenever opened, is sent it.
C26_UnregisteredResultDropped ==
    \A h \in handled :
        ~h.registered =>
            /\ AttemptsFor(h.task_id) = {}
            /\ EmittedFor(h.task_id) = {}
            /\ InboxFor(h.task_id) = {}
            /\ BroadcastOver(h.task_id)

C26_Witness ==
    \E h \in handled, sid \in Sids :
        /\ ~h.registered
        /\ handler[sid].pc = "open"
        /\ sid \in ConnectionsOf(handler[sid].user_id)


\* sid is an accepted connection that is in the registry
Live(sid) ==
    /\ handler[sid].pc = "open"
    /\ sid \in ConnectionsOf(handler[sid].user_id)

PublishedWhileLive(task_id, sid) ==
    \E b \in bus_log : b.task_id = task_id /\ sid \in b.live

Sent(task_id, sid) == \E e \in EmittedFor(task_id) : e.sid = sid

EmitFailed(task_id, sid) == \E a \in AttemptsFor(task_id) : a.sid = sid /\ ~a.ok

\* C27: a result published while a connection of its user is live is
\* eventually emitted to that connection, unless the connection goes away or
\* the emit to it raises; also when the listener is in its reconnect path
\* at the time of publication.
C27_PublishedIsEventuallyEmitted ==
    \A t \in Submitted, sid \in Sids :
        PublishedWhileLive(t, sid) ~> (Sent(t, sid) \/ ~Live(sid) \/ EmitFailed(t, sid))


\* the pipeline step a run is in: the decision engine's awaits belong to decide
StepAt(t) ==
    IF pc[t] \in {"decision_engine", "intro_fetch", "intro_generate"} THEN "decision_engine"
    ELSE pc[t]

PipelineSteps ==
    {"sanitization", "vectorization", "hybrid_matching", "decision_engine", "publish"}

\* C28: while a run is at work in one of the five steps - sanitize, embed,
\* match, decide, publish - the task's observable status is PROCESSING and
\* names that step, never an earlier one.
C28_StatusNamesRunningStep ==
    \A t \in Tasks :
        StepAt(t) \in PipelineSteps =>
            (state[t] = "PROCESSING" /\ info[t].step = StepAt(t))


\* the positions from the fourth on whose category differs from the first's
DiverseBelowTop(matches) ==
    {i \in 4..Len(matches) : matches[i].category # matches[1].category}

\* s with its k-th entry taken out
Without(s, k) == SubSeq(s, 1, k - 1) \o SubSeq(s, k + 1, Len(s))

\* C29: when the top 3 share one category and an entry further down
\* differs, the first such entry is moved to the third place and nothing
\* else moves: the first two places are unchanged and all other entries
\* keep their relative order.
C29_FirstDiverseMovesToThird ==
    (fn_done /\ TopThreeAlike(fn_in) /\ DiverseBelowTop(fn_in) # {}) =>
        LET i == Min(DiverseBelowTop(fn_in))
        IN  /\ fn_out[1] = fn_in[1]
            /\ fn_out[2] = fn_in[2]
            /\ fn_out[3] = fn_in[i]
            /\ Without(fn_out, 3) = Without(fn_in, i)

\* [A, B, C, D, E] with only D differing becomes [A, B, D, C, E]
C29_Witness ==
    /\ fn_done
    /\ Len(fn_in) = 5
    /\ DiverseBelowTop(fn_in) = {4}
    /\ TopThreeAlike(fn_in)
    /\ [k \in 1..5 |-> fn_out[k].community_id] = << 1, 2, 4, 3, 5 >>

\* C30: a list of fewer than 4 entries, or one whose top 3 do not all share
\* one category, is returned as it was: same entries, same order.
C30_ShortOrMixedUnchanged ==
    (fn_done /\ ~TopThreeAlike(fn_in)) => fn_out = fn_in

C30_Witness ==
    /\ fn_done
    /\ Len(fn_in) >= 4
    /\ Cardinality(CategoriesOf(fn_in, 3)) >= 2
    /\ DiverseBelowTop(fn_in) # {}
    /\ fn_out = fn_in

\* the community ids of a list of rows, hits or matches
IdsOf(rows) == {rows[i].community_id : i \in 1..Len(rows)}

\* the matcher took its non-empty-locality path: merged, scored entries in loc.matches
MatchedFromLocality(t) ==
    /\ pc[t] \notin {"unsubmitted", "queued", "started", "sanitization",
                     "vectorization", "hybrid_matching"}
    /\ loc[t].killed_at \notin {"started", "sanitization", "vectorization", "hybrid_matching"}
    /\ Scored(loc[t].matches)

\* the index answers of DbScenarios that name a community with no locality row
StaleHits(db) == {i \in 1..Len(db.hits) : db.hits[i].community_id \notin IdsOf(db.filtered)}

\* C31: when the locality filter is non-empty, every entry the Hybrid Matcher returns
\* has a community_id of the locality-filter result; a vector-index hit that has no
\* locality row is dropped and is not in the output
C31_StaleHitsDropped ==
    /\ \A t \in Tasks :
          MatchedFromLocality(t) => IdsOf(loc[t].matches) \subseteq IdsOf(LocalRows)
    /\ \A db \in DbScenarios :
          db.filtered # << >> =>
              IdsOf(_hybrid_matching_algorithm(db.filtered, db.hits)) \subseteq IdsOf(db.filtered)

\* the matcher has returned for index answers that held the stale hit c9 between
\* c2 and c1: the list is c2, c1, and c9 is gone
C31_Witness ==
    \E t \in Tasks, db \in DbScenarios :
        /\ MatchedFromLocality(t)
        /\ StaleHits(db) # {}
        /\ loc[t].matches = _hybrid_matching_algorithm(db.filtered, db.hits)
        /\ Len(loc[t].matches) = Len(db.hits) - Cardinality(StaleHits(db))

\* C35: on repeated Result Bus failures the listener retries in a loop inside one
\* invocation: the number of nested redis_listener invocations stays at one however
\* many failures have occurred, so no retry leaves a deeper invocation behind
C35_RetryDoesNotNest == listener.depth <= 1

\* every path through the except clause has added one nested invocation
C35_DepthCountsRetries ==
    listener.pc = "listening" /\ listener.errors = MaxListenerErrors
        => listener.depth >= 1 + MaxListenerErrors

\* this step is the return of an awaited sio.emit that raised
EmitRaises == \E a \in attempted' \ attempted : ~a.ok

\* the except clause of broadcast_to_user took the failed sid, and nothing else,
\* out of the registry
OnlyFailedSidRemoved ==
    LET user_id == listener.frame.user_id
        sid     == listener.frame.sid
    IN  \A u \in DOMAIN active_connections :
            /\ u \in DOMAIN active_connections'
            /\ active_connections'[u] =
                  IF u = user_id THEN active_connections[u] \ {sid} ELSE active_connections[u]

\* broadcast_to_user went on to its next sid or returned to the listener's loop
BroadcastGoesOn == listener'.pc \in {"emitting", "listening"}

\* the frame half of C32 alone: a failed delivery changes the registry by the
\* failed sid at most
C32_FrameOnly ==
    [][EmitRaises =>
          /\ DOMAIN active_connections' = DOMAIN active_connections
          /\ OnlyFailedSidRemoved]_vars

\* C32: a delivery that fails for one connection removes only that connection from
\* the Connection Registry, every other connection and every other user's entry is
\* unchanged, and no error is raised out of broadcast_to_user
C32_FailedDeliveryRemovesOnlyThatSid ==
    [][EmitRaises =>
          /\ DOMAIN active_connections' = DOMAIN active_connections
          /\ OnlyFailedSidRemoved
          /\ listener.frame.sid \notin RegisteredSids'
          /\ BroadcastGoesOn]_vars

\* C36: when the user's registry entry was deleted by disconnects while
\* broadcast_to_user was suspended in a delivery to that user, and that delivery then
\* fails, broadcast_to_user does not raise: it goes on over its snapshot and the
\* listener stays out of its error and reconnect path
C36_FailureAfterEntryDeletedIsHandled ==
    [][(/\ listener.pc = "emitting"
        /\ ~Registered(listener.frame.user_id)
        /\ EmitRaises)
          => /\ listener'.pc # "sleeping"
             /\ listener'.depth = listener.depth
             /\ (listener.frame.todo # {} => listener'.pc = "emitting")]_vars

\* C37: a connection id is in the Connection Registry only if its connect handler
\* accepted it: once connect has returned a rejection for a sid, also after an error
\* while saving the session or sending the acknowledgement, the sid is not in the registry
C37_RejectedSidNotRegistered ==
    \A sid \in Sids : handler[sid].pc = "rejected" => sid \notin RegisteredSids

\* the rejection that comes before the registry is touched leaves no entry behind
C37_RejectedWithoutUserNotRegistered ==
    \A sid \in Sids :
        handler[sid].pc = "rejected" /\ handler[sid].user_id = NoUser => sid \notin RegisteredSids

\* sid is in the copy of the user's connection set that broadcast_to_user took for task_id
InSnapshot(task_id, sid) ==
    \E h \in handled : h.task_id = task_id /\ h.registered /\ sid \in h.sids

\* broadcast_to_user has called sio.emit for sid, whether or not the call has returned
EmitStarted(task_id, sid) ==
    \/ \E a \in AttemptsFor(task_id) : a.sid = sid
    \/ /\ listener.pc = "emitting"
       /\ listener.frame.match_result.task_id = task_id
       /\ listener.frame.sid = sid

\* C33: delivery to a user with several connections does not wait on a slow one:
\* every connection of the snapshot that stays live has its emit started, also when
\* the emit to another connection of the snapshot never completes
C33_FanOutDoesNotWait ==
    \A t \in Submitted, sid \in Sids :
        InSnapshot(t, sid) ~> (EmitStarted(t, sid) \/ ~Live(sid))

\* when every awaited emit does return, each live connection of the snapshot is reached
C33_FanOutWhenEmitsReturn ==
    \A t \in Submitted, sid \in Sids :
        InSnapshot(t, sid) ~> (EmitStarted(t, sid) \/ ~Live(sid) \/ listener.pc = "sleeping")

\* C34: the ping handler and the subscribe_match handler leave the Connection
\* Registry unchanged for every input, also for a subscribe_match with no task_id
\* or on a session that holds no user
C34_EventsKeepRegistry ==
    [][(acks' # acks \/ handler' = handler) => active_connections' = active_connections]_vars

\* one sid of the registry has had its subscription confirmed, another sid was
\* answered 'error' on a session without a user, and the registry still holds an entry
C34_Witness ==
    \E s1, s2 \in Sids :
        /\ acks[s1] = "subscription_confirmed"
        /\ s1 \in RegisteredSids
        /\ acks[s2] = "error"
        /\ session[s2] = NoUser

\* C38: channel-key round trip: for every user id, also one that contains the text
\* "match_updates_", the delivery channel key returned at ingestion equals the channel
\* the orchestrator publishes on, and the user id the gateway extracts from that
\* channel name is the original user id
C38_ChannelRoundTrip ==
    fn_done => /\ fn_out.websocket_channel = fn_out.channel
               /\ fn_out.user_id = fn_in

\* the two channel names agree for every user id
C38_SameChannelKey == fn_done => fn_out.websocket_channel = fn_out.channel

\* the round trip is exact for every user id that does not contain the prefix
C38_RoundTripWithoutPrefix ==
    fn_done /\ (\A i \in 1..Len(fn_in) : fn_in[i] # "match_updates_") => fn_out.user_id = fn_in

\* the user id a sid gave when it connected
RegisteredAs(sid) == handler[sid].user_id

\* C39: user isolation: a Match Result published for user u is emitted only to
\* connections that registered with user id u, in every interleaving of connects,
\* disconnects and publishes
C39_UserIsolation ==
    \A e \in emitted : RegisteredAs(e.sid) = e.data.result.user_id

\* isolation between users whose ids do not contain the channel prefix
C39_IsolationWithoutPrefix ==
    \A e \in emitted :
        (\A i \in 1..Len(e.data.result.user_id) : e.data.result.user_id[i] # "match_updates_")
            => RegisteredAs(e.sid) = e.data.result.user_id

\* C40: _get_jwks_client refreshes the signing keys at most once per hour: no two
\* fetches of the key set fall within one window of JWKS_CACHE_TTL_SECONDS, also
\* when several requests call it concurrently while the cache is empty or expired
C40_OneFetchPerWindow ==
    \A f, g \in fetches :
        f # g => (f.at - g.at >= JWKS_CACHE_TTL_SECONDS \/ g.at - f.at >= JWKS_CACHE_TTL_SECONDS)

\* while the cache holds keys that are not older than the TTL, no call sends a GET
C40_NoFetchWhileFresh ==
    [][~CacheStale(clock) => fetches' = fetches]_vars

====
